---------------------------- MODULE Spec2Model ----------------------------
(***************************************************************************)
(* A model of go-genconstructor: genconstructor.Run (the marker scan, the  *)
(* field collection, the import resolution, the constructor template and   *)
(* the per-package write) and the parameter naming function toLowerCamel.  *)
(*                                                                         *)
(* Texts are sequences of one-character strings, so that the string        *)
(* functions the code calls (HasPrefix, Fields, FieldsFunc, SplitN, Trim,  *)
(* Base, ToLower, IndexFunc) are computed character by character.          *)
(***************************************************************************)
EXTENDS Integers, Sequences, FiniteSets, TLC

VARIABLES
    pc,              \* position of Run: start, loop, open, write, ret, done
    dir,             \* the target directory: the outcome of ParseDir
    remaining,       \* packages of pkgMap the range loop has not visited yet
    cur,             \* the package of the current iteration
    body,            \* the constructors rendered for the current package
    importPackages,  \* the import specs recorded for the current package
    opened,          \* per package: calls of newWriter
    isCloser,        \* per package: whether the writer it got is an io.Closer
    writes,          \* per package: calls of writer.Write
    out,             \* per package: what a successful Write stored
    closed,          \* per package: calls of closer.Close
    deferred,        \* the deferred Close calls of Run, oldest first
    result,          \* how Run ended: none, nil, or the kind of error or panic
    name,            \* toLowerCamel: the argument
    lowered          \* toLowerCamel: the result, <<"?">> before the call

vars == <<pc, dir, remaining, cur, body, importPackages, opened, isCloser,
          writes, out, closed, deferred, result, name, lowered>>

runVars == <<pc, dir, remaining, cur, body, importPackages, opened, isCloser,
             writes, out, closed, deferred, result>>

-----------------------------------------------------------------------------
(* Characters and the library string functions the code uses.              *)

UpperLetters ==
    <<"A", "B", "C", "D", "E", "F", "G", "H", "I", "J", "K", "L", "M",
      "N", "O", "P", "Q", "R", "S", "T", "U", "V", "W", "X", "Y", "Z">>

LowerLetters ==
    <<"a", "b", "c", "d", "e", "f", "g", "h", "i", "j", "k", "l", "m",
      "n", "o", "p", "q", "r", "s", "t", "u", "v", "w", "x", "y", "z">>

Range(s) == {s[i] : i \in 1..Len(s)}

\* unicode.IsUpper
IsUpper(c) == c \in Range(UpperLetters)

\* unicode.IsLetter: the underscore and the digits are not letters
IsLetter(c) == c \in Range(UpperLetters) \cup Range(LowerLetters)

\* unicode.IsSpace, for the characters the texts of this model hold
IsSpace(c) == c \in {" ", "\t"}

ToLowerChar(c) ==
    IF IsUpper(c)
    THEN LowerLetters[CHOOSE i \in 1..Len(UpperLetters) : UpperLetters[i] = c]
    ELSE c

\* strings.ToLower
ToLower(s) == [i \in 1..Len(s) |-> ToLowerChar(s[i])]

\* strings.IndexFunc with the predicate "not upper case": the 0-based index of
\* the first character that is not upper case, -1 when there is none
IndexNotUpper(s) ==
    IF \E i \in 1..Len(s) : ~IsUpper(s[i])
    THEN (CHOOSE i \in 1..Len(s) :
              /\ ~IsUpper(s[i])
              /\ \A j \in 1..(i - 1) : IsUpper(s[j])) - 1
    ELSE -1

\* strings.HasPrefix
HasPrefix(s, p) == Len(s) >= Len(p) /\ SubSeq(s, 1, Len(p)) = p

\* strings.TrimSpace
TrimSpace(s) ==
    IF \A i \in 1..Len(s) : IsSpace(s[i])
    THEN <<>>
    ELSE LET lo == CHOOSE i \in 1..Len(s) :
                       ~IsSpace(s[i]) /\ \A j \in 1..(i - 1) : IsSpace(s[j])
             hi == CHOOSE i \in 1..Len(s) :
                       ~IsSpace(s[i]) /\ \A j \in (i + 1)..Len(s) : IsSpace(s[j])
         IN  SubSeq(s, lo, hi)

\* strings.FieldsFunc: the maximal runs of characters that are not
\* separators, in order; sep[i] tells whether s[i] is a separator
RECURSIVE SplitRuns(_, _, _, _)
SplitRuns(s, sep, i, run) ==
    IF i > Len(s)
    THEN IF run = <<>> THEN <<>> ELSE <<run>>
    ELSE IF sep[i]
         THEN (IF run = <<>> THEN <<>> ELSE <<run>>) \o SplitRuns(s, sep, i + 1, <<>>)
         ELSE SplitRuns(s, sep, i + 1, Append(run, s[i]))

\* strings.Fields
Fields(s) == SplitRuns(s, [i \in 1..Len(s) |-> IsSpace(s[i])], 1, <<>>)

\* strings.Trim(s, cutset) with a cutset of one character
Trim(s, c) ==
    IF \A i \in 1..Len(s) : s[i] = c
    THEN <<>>
    ELSE LET lo == CHOOSE i \in 1..Len(s) :
                       s[i] # c /\ \A j \in 1..(i - 1) : s[j] = c
             hi == CHOOSE i \in 1..Len(s) :
                       s[i] # c /\ \A j \in (i + 1)..Len(s) : s[j] = c
         IN  SubSeq(s, lo, hi)

\* path.Base: the last element of the path; trailing slashes are removed
\* first, an empty path gives ".", a path of slashes only gives "/"
Base(p) ==
    IF p = <<>> THEN <<".">>
    ELSE LET t == IF \A i \in 1..Len(p) : p[i] = "/" THEN <<>>
                  ELSE SubSeq(p, 1, CHOOSE i \in 1..Len(p) :
                           p[i] # "/" /\ \A j \in (i + 1)..Len(p) : p[j] = "/")
         IN  IF t = <<>> THEN <<"/">>
             ELSE IF \E i \in 1..Len(t) : t[i] = "/"
                  THEN SubSeq(t, 1 + (CHOOSE i \in 1..Len(t) :
                           t[i] = "/" /\ \A j \in (i + 1)..Len(t) : t[j] # "/"), Len(t))
                  ELSE t

\* strings.SplitN(s, ".", 2): at most two pieces, cut at the first dot
SplitN2(s) ==
    IF \E i \in 1..Len(s) : s[i] = "."
    THEN LET k == CHOOSE i \in 1..Len(s) :
                      s[i] = "." /\ \A j \in 1..(i - 1) : s[j] # "."
         IN  <<SubSeq(s, 1, k - 1), SubSeq(s, k + 1, Len(s))>>
    ELSE <<s>>

-----------------------------------------------------------------------------
(* The constants of the generator.                                         *)

commentMarker ==
    <<"/", "/", "g", "e", "n", "c", "o", "n", "s", "t", "r", "u", "c", "t", "o", "r">>

pointerOpts ==
    <<"-", "p">>

\* the backquote of strings.Trim(field.Tag.Value, "`"); a string of this
\* notation cannot hold the character, and the apostrophe, which no text of
\* the inputs holds, stands for it
backquote == "'"

\* the tag key of tag.Lookup("required")
keyRequired ==
    <<"r", "e", "q", "u", "i", "r", "e", "d">>

\* option.generatorName as Run sets it before the options are applied
generatorName ==
    <<"g", "o", "-", "g", "e", "n", "c", "o", "n", "s", "t", "r", "u", "c", "t", "o", "r">>

-----------------------------------------------------------------------------
(* toLowerCamel and its table.                                             *)

commonInitialisms ==
    { <<"a", "c", "l">>, <<"a", "p", "i">>, <<"a", "s", "c", "i", "i">>,
      <<"c", "p", "u">>, <<"c", "s", "s">>, <<"d", "n", "s">>,
      <<"e", "o", "f">>, <<"g", "u", "i", "d">>, <<"h", "t", "m", "l">>,
      <<"h", "t", "t", "p">>, <<"h", "t", "t", "p", "s">>, <<"i", "d">>,
      <<"i", "p">>, <<"j", "s", "o", "n">>, <<"l", "h", "s">>,
      <<"q", "p", "s">>, <<"r", "a", "m">>, <<"r", "h", "s">>,
      <<"r", "p", "c">>, <<"s", "l", "a">>, <<"s", "m", "t", "p">>,
      <<"s", "q", "l">>, <<"s", "s", "h">>, <<"t", "c", "p">>,
      <<"t", "l", "s">>, <<"t", "t", "l">>, <<"u", "d", "p">>,
      <<"u", "i">>, <<"u", "i", "d">>, <<"u", "u", "i", "d">>,
      <<"u", "r", "i">>, <<"u", "r", "l">>, <<"u", "t", "f", "8">>,
      <<"v", "m">>, <<"x", "m", "l">>, <<"x", "m", "p", "p">>,
      <<"x", "s", "r", "f">>, <<"x", "s", "s">> }

toLowerCamel(s) ==
    IF s = <<>> THEN s
    ELSE LET idx == IndexNotUpper(s)
             firstNotUpperIndex == IF idx = -1 THEN Len(s) ELSE idx
             head == SubSeq(s, 1, firstNotUpperIndex)
         IN  IF head \in commonInitialisms
             THEN ToLower(head) \o SubSeq(s, firstNotUpperIndex + 1, Len(s))
             ELSE ToLower(SubSeq(s, 1, 1)) \o SubSeq(s, 2, Len(s))

-----------------------------------------------------------------------------
(* Texts of the source files the model is run on: comment lines, field     *)
(* names, printed field types, tag values, import paths, type names.       *)

lineMarker ==
    <<"/", "/", "g", "e", "n", "c", "o", "n", "s", "t", "r", "u", "c", "t", "o", "r">>

lineMarkerP ==
    <<"/", "/", "g", "e", "n", "c", "o", "n", "s", "t", "r", "u", "c", "t", "o", "r", " ", "-", "p">>

lineMarkerTabP ==
    <<"/", "/", "g", "e", "n", "c", "o", "n", "s", "t", "r", "u", "c", "t", "o", "r", "\t", "-", "p", " ">>

linePlain ==
    <<"/", "/", " ", "T", " ", "i", "s", " ", "a", " ", "t", "y", "p", "e">>

linePlainP ==
    <<"/", "/", " ", "u", "s", "e", " ", "-", "p">>

lineLonger ==
    <<"/", "/", "g", "e", "n", "c", "o", "n", "s", "t", "r", "u", "c", "t", "o", "r", "s">>

lineGlued ==
    <<"/", "/", "g", "e", "n", "c", "o", "n", "s", "t", "r", "u", "c", "t", "o", "r", "-", "p">>

lineSpaced ==
    <<"/", "/", " ", "g", "e", "n", "c", "o", "n", "s", "t", "r", "u", "c", "t", "o", "r", " ", "-", "p">>

nameA ==
    <<"A">>

nameB ==
    <<"B">>

nameC ==
    <<"C">>

nameID ==
    <<"I", "D">>

nameName ==
    <<"N", "a", "m", "e">>

nameURL ==
    <<"U", "R", "L">>

nameCert ==
    <<"C", "e", "r", "t">>

nameAt ==
    <<"A", "t">>

nameMsg ==
    <<"M", "s", "g">>

nameQ ==
    <<"Q">>

nameS ==
    <<"S">>

nameX ==
    <<"X">>

nameY ==
    <<"Y">>

typeString ==
    <<"s", "t", "r", "i", "n", "g">>

typeInt ==
    <<"i", "n", "t">>

typeCert ==
    <<"*", "x", "5", "0", "9", ".", "C", "e", "r", "t", "i", "f", "i", "c", "a", "t", "e">>

typeTime ==
    <<"t", "i", "m", "e", ".", "T", "i", "m", "e">>

typeMsg ==
    <<"m", "a", "p", "[", "s", "t", "r", "i", "n", "g", "]", "p", "b", ".", "M", "s", "g">>

typeBase ==
    <<"B", "a", "s", "e">>

typeStarBase ==
    <<"*", "B", "a", "s", "e">>

\* `required:"7"`
tag7 ==
    <<backquote, "r", "e", "q", "u", "i", "r", "e", "d", ":", "\"", "7", "\"", backquote>>

\* `json:"c"`
tagJson ==
    <<backquote, "j", "s", "o", "n", ":", "\"", "c", "\"", backquote>>

\* `required:""`
tagEmpty ==
    <<backquote, "r", "e", "q", "u", "i", "r", "e", "d", ":", "\"", "\"", backquote>>

\* `json:"c" required:""`
tagJsonEmpty ==
    <<backquote, "j", "s", "o", "n", ":", "\"", "c", "\"", " ", "r", "e", "q", "u", "i", "r", "e", "d", ":", "\"", "\"", backquote>>

\* `required:")"`
tagBad ==
    <<backquote, "r", "e", "q", "u", "i", "r", "e", "d", ":", "\"", ")", "\"", backquote>>

\* "required:\"\""
tagInterpreted ==
    <<"\"", "r", "e", "q", "u", "i", "r", "e", "d", ":", "\\", "\"", "\\", "\"", "\"">>

\* `required:"\"c\""`
tagQuoted ==
    <<backquote, "r", "e", "q", "u", "i", "r", "e", "d", ":", "\"", "\\", "\"", "c", "\\", "\"", "\"", backquote>>

const7 ==
    <<"7">>

pathTime ==
    <<"\"", "t", "i", "m", "e", "\"">>

pathX509 ==
    <<"\"", "c", "r", "y", "p", "t", "o", "/", "x", "5", "0", "9", "\"">>

pathProto ==
    <<"\"", "e", "x", "a", "m", "p", "l", "e", ".", "c", "o", "m", "/", "p", "r", "o", "t", "o", "\"">>

pathPb ==
    <<"\"", "e", "x", "a", "m", "p", "l", "e", ".", "c", "o", "m", "/", "p", "b", "\"">>

aliasPb ==
    <<"p", "b">>

structT ==
    <<"T">>

structU ==
    <<"U">>

structV ==
    <<"V">>

pkgMain ==
    <<"m", "a", "i", "n">>

pkgModel ==
    <<"m", "o", "d", "e", "l">>

-----------------------------------------------------------------------------
(* The marker scan of a type declaration's doc comment.                    *)

\* the first comment of decl.Doc.List whose trimmed text starts with the
\* marker: its index, 0 when there is none (the loop breaks at the first)
MarkerIndex(doc) ==
    IF \E i \in 1..Len(doc) : HasPrefix(TrimSpace(doc[i]), commentMarker)
    THEN CHOOSE i \in 1..Len(doc) :
             /\ HasPrefix(TrimSpace(doc[i]), commentMarker)
             /\ \A j \in 1..(i - 1) : ~HasPrefix(TrimSpace(doc[j]), commentMarker)
    ELSE 0

\* a scan that looks at the first comment of the doc comment only
hasMarker_FirstLine(doc) ==
    Len(doc) > 0 /\ HasPrefix(TrimSpace(doc[1]), commentMarker)

hasMarker(doc) == MarkerIndex(doc) # 0

\* a scan that looks for the pointer option in every comment
hasPointerOpts_AnyLine(doc) ==
    /\ MarkerIndex(doc) # 0
    /\ \E i \in 1..Len(doc) : \E w \in Range(Fields(doc[i])) : w = pointerOpts

\* the pointer option is looked for among the words of that comment only
hasPointerOpts(doc) ==
    /\ MarkerIndex(doc) # 0
    /\ \E w \in Range(Fields(doc[MarkerIndex(doc)])) : w = pointerOpts

\* a scan that takes every type declaration, marked or not
DeclSelected_AnyType(decl) == decl.isGenDecl /\ decl.Tok = "type"

\* the declarations the scan goes on with: a GenDecl of token TYPE that has
\* a doc comment holding the marker
DeclSelected(decl) ==
    /\ decl.isGenDecl
    /\ decl.Tok = "type"
    /\ decl.hasDoc
    /\ hasMarker(decl.Doc)

-----------------------------------------------------------------------------
(* The field collection.                                                   *)

\* the tag the scan reads: the literal of the source, its backquotes cut off
\* (the double quotes and the escapes of an interpreted literal stay)
StructTagOf(field) == Trim(field.Tag, backquote)

\* the number of leading spaces of a tag
RECURSIVE LeadingSpaces(_, _)
LeadingSpaces(tag, i) ==
    IF i < Len(tag) /\ tag[i + 1] = " " THEN LeadingSpaces(tag, i + 1) ELSE i

\* the length of the key a tag starts with: up to a space, a colon or a quote
RECURSIVE KeyLength(_, _)
KeyLength(tag, i) ==
    IF i < Len(tag) /\ tag[i + 1] \notin {" ", ":", "\""}
    THEN KeyLength(tag, i + 1)
    ELSE i

\* the 0-based index of the quote that closes the quoted string a tag starts
\* with, Len(tag) or more when nothing closes it; a backslash hides the
\* character after it
RECURSIVE ClosingQuote(_, _)
ClosingQuote(tag, i) ==
    IF i < Len(tag) /\ tag[i + 1] # "\""
    THEN ClosingQuote(tag, IF tag[i + 1] = "\\" THEN i + 2 ELSE i + 1)
    ELSE i

\* strconv.Unquote of a double-quoted string whose escapes are \" and \\
RECURSIVE Unescape(_)
Unescape(text) ==
    IF text = <<>> THEN <<>>
    ELSE IF Head(text) = "\\" /\ Len(text) >= 2
    THEN <<text[2]>> \o Unescape(SubSeq(text, 3, Len(text)))
    ELSE <<Head(text)>> \o Unescape(Tail(text))

Unquote(quoted) == Unescape(SubSeq(quoted, 2, Len(quoted) - 1))

\* reflect.StructTag.Lookup: the tag is read as key:"value" pairs separated
\* by spaces, up to the first place where it is not of that form; the value
\* of the first pair with the key, unquoted
RECURSIVE Lookup(_, _)
Lookup(tag, key) ==
    LET rest == SubSeq(tag, LeadingSpaces(tag, 0) + 1, Len(tag))
        i == KeyLength(rest, 0)
    IN  IF rest = <<>> \/ i = 0 \/ i + 1 >= Len(rest)
               \/ rest[i + 1] # ":" \/ rest[i + 2] # "\""
        THEN [ok |-> FALSE, value |-> <<>>]
        ELSE LET quoted == SubSeq(rest, i + 2, Len(rest))
                 j == ClosingQuote(quoted, 1)
             IN  IF j >= Len(quoted)
                 THEN [ok |-> FALSE, value |-> <<>>]
                 ELSE IF SubSeq(rest, 1, i) = key
                 THEN [ok |-> TRUE, value |-> Unquote(SubSeq(quoted, 1, j + 1))]
                 ELSE Lookup(SubSeq(quoted, j + 2, Len(quoted)), key)

\* a collection that takes the fields without a tag too
FieldCollected_Untagged(field) ==
    ~field.hasTag \/ Lookup(StructTagOf(field), keyRequired).ok

\* a field is collected when it has a tag and the tag has the key "required"
FieldCollected(field) ==
    field.hasTag /\ Lookup(StructTagOf(field), keyRequired).ok

\* whether field.Type is an *ast.Ident: its printed text is an identifier
IsIdent(text) ==
    /\ text # <<>>
    /\ \A i \in 1..Len(text) :
           IsLetter(text[i]) \/ text[i] = "_" \/ (i > 1 /\ text[i] \in
               {"0", "1", "2", "3", "4", "5", "6", "7", "8", "9"})

\* the field's name, or for an embedded field the name of its type
FieldName(field) ==
    IF field.Names # <<>> THEN field.Names[1] ELSE field.Type

FieldInfoOf(field) ==
    [Type |-> field.Type,
     Name |-> FieldName(field),
     ConstValue |-> Lookup(StructTagOf(field), keyRequired).value]

\* whether the import spec is the one a qualifier names: by its alias when
\* it has one, by the last element of its path otherwise
ImportMatches(imp, qualifier) ==
    IF ~imp.hasName
    THEN Base(Trim(imp.Path, "\"")) = qualifier
    ELSE imp.Name = qualifier

\* the words of a printed field type: cut at every character that is
\* neither a letter nor a dot
TypeWords(fieldTypeText) ==
    SplitRuns(fieldTypeText,
              [i \in 1..Len(fieldTypeText) |->
                  ~IsLetter(fieldTypeText[i]) /\ fieldTypeText[i] # "."],
              1, <<>>)

\* the import one word records: the first import of the file that matches
\* the part before the word's first dot; nothing for a word without a dot
\* or without a matching import
WordImports(word, imports) ==
    LET ss == SplitN2(word)
    IN  IF Len(ss) = 2 /\ \E i \in 1..Len(imports) : ImportMatches(imports[i], ss[1])
        THEN <<imports[CHOOSE i \in 1..Len(imports) :
                   /\ ImportMatches(imports[i], ss[1])
                   /\ \A j \in 1..(i - 1) : ~ImportMatches(imports[j], ss[1])]>>
        ELSE <<>>

RECURSIVE ResolveWords(_, _, _)
ResolveWords(words, i, imports) ==
    IF i > Len(words) THEN <<>>
    ELSE WordImports(words[i], imports) \o ResolveWords(words, i + 1, imports)

\* "resolve imports": what one collected field appends to importPackages
ResolveImports(fieldTypeText, imports) ==
    ResolveWords(TypeWords(fieldTypeText), 1, imports)

\* the loop over structType.Fields.List; acc holds the status, the
\* fieldInfos of this structure and the importPackages of the package
RECURSIVE CollectFields(_, _, _, _)
CollectFields(fields, i, imports, acc) ==
    IF i > Len(fields) \/ acc.status # "ok" THEN acc
    ELSE LET field == fields[i]
         IN  IF ~FieldCollected(field)
             THEN CollectFields(fields, i + 1, imports, acc)
             ELSE IF ~field.printable
             THEN [acc EXCEPT !.status = "printErr"]
             ELSE IF field.Names = <<>> /\ ~IsIdent(field.Type)
             THEN [acc EXCEPT !.status = "panic"]
             ELSE CollectFields(fields, i + 1, imports,
                      [status |-> "ok",
                       fieldInfos |-> Append(acc.fieldInfos, FieldInfoOf(field)),
                       importPackages |-> acc.importPackages
                           \o ResolveImports(field.Type, imports)])

-----------------------------------------------------------------------------
(* The constructor template.                                               *)

\* the truth of a string in text/template: it is not empty
Truth(text) == text # <<>>

\* a template whose parameter list has every field, constant or not
RECURSIVE Params_EveryField(_, _)
Params_EveryField(fieldInfos, i) ==
    IF i > Len(fieldInfos) THEN <<>>
    ELSE <<[Name |-> toLowerCamel(fieldInfos[i].Name),
            Type |-> fieldInfos[i].Type]>> \o Params_EveryField(fieldInfos, i + 1)

\* {{ range .Fields }}{{ if not .ConstValue }} parameter {{ end }}{{ end }}
RECURSIVE Params(_, _)
Params(fieldInfos, i) ==
    IF i > Len(fieldInfos) THEN <<>>
    ELSE (IF ~Truth(fieldInfos[i].ConstValue)
          THEN <<[Name |-> toLowerCamel(fieldInfos[i].Name),
                  Type |-> fieldInfos[i].Type]>>
          ELSE <<>>) \o Params(fieldInfos, i + 1)

\* the initializer of one field: the constant, or the parameter's name
InitOf(fieldInfo) ==
    IF Truth(fieldInfo.ConstValue)
    THEN [Key |-> fieldInfo.Name, Value |-> fieldInfo.ConstValue]
    ELSE [Key |-> fieldInfo.Name, Value |-> toLowerCamel(fieldInfo.Name)]

\* {{ if .Pointer }}*{{ end }} before the result type
ResultStar(tmplParam) == tmplParam.Pointer

\* {{ if .Pointer }}&{{ end }} before the composite literal
LiteralAmp(tmplParam) == tmplParam.Pointer

\* the rendered constructor, kept as the parts the template writes
Execute(tmplParam) ==
    [StructName |-> tmplParam.StructName,
     Params     |-> Params(tmplParam.Fields, 1),
     Star       |-> ResultStar(tmplParam),
     Amp        |-> LiteralAmp(tmplParam),
     Inits      |-> [i \in 1..Len(tmplParam.Fields) |-> InitOf(tmplParam.Fields[i])]]

-----------------------------------------------------------------------------
(* The scan of one package.                                                *)

\* the loop over decl.Specs of a selected declaration
RECURSIVE ScanSpecs(_, _, _, _, _)
ScanSpecs(specs, i, doc, imports, acc) ==
    IF i > Len(specs) \/ acc.status # "ok" THEN acc
    ELSE IF ~specs[i].isStruct
    THEN ScanSpecs(specs, i + 1, doc, imports, acc)
    ELSE LET r == CollectFields(specs[i].Fields, 1, imports,
                      [status |-> "ok", fieldInfos |-> <<>>,
                       importPackages |-> acc.importPackages])
         IN  IF r.status # "ok"
             THEN [acc EXCEPT !.status = r.status]
             ELSE ScanSpecs(specs, i + 1, doc, imports,
                      [status |-> "ok",
                       body |-> Append(acc.body,
                                    Execute([StructName |-> specs[i].Name,
                                             Fields |-> r.fieldInfos,
                                             Pointer |-> hasPointerOpts(doc)])),
                       importPackages |-> r.importPackages])

\* the loop over file.Decls
RECURSIVE ScanDecls(_, _, _, _)
ScanDecls(decls, i, imports, acc) ==
    IF i > Len(decls) \/ acc.status # "ok" THEN acc
    ELSE IF ~DeclSelected(decls[i])
    THEN ScanDecls(decls, i + 1, imports, acc)
    ELSE ScanDecls(decls, i + 1, imports,
             ScanSpecs(decls[i].Specs, 1, decls[i].Doc, imports, acc))

\* sortedFileNameList: the keys of pkg.Files in increasing order (the model
\* numbers the file names in their lexical order)
RECURSIVE SortedFileNameList(_)
SortedFileNameList(names) ==
    IF names = {} THEN <<>>
    ELSE LET least == CHOOSE n \in names : \A m \in names : n <= m
         IN  <<least>> \o SortedFileNameList(names \ {least})

\* the loop over sortedFileList
RECURSIVE ScanFiles(_, _, _, _)
ScanFiles(files, order, i, acc) ==
    IF i > Len(order) \/ acc.status # "ok" THEN acc
    ELSE ScanFiles(files, order, i + 1,
             ScanDecls(files[order[i]].Decls, 1, files[order[i]].Imports, acc))

\* one iteration of the loop over pkgMap, up to "if body.Len() == 0"
ScanPackage(pkg) ==
    ScanFiles(pkg.Files, SortedFileNameList(DOMAIN pkg.Files), 1,
              [status |-> "ok", body |-> <<>>, importPackages |-> <<>>])

-----------------------------------------------------------------------------
(* The generated file.                                                     *)

\* the characters of the texts compared here, in the order of their codes
CodeOrder ==
    <<"\"", ".", "/", "0", "1", "2", "3", "4", "5", "6", "7", "8", "9">>
        \o UpperLetters \o <<"_">> \o LowerLetters

Code(c) == CHOOSE i \in 1..Len(CodeOrder) : CodeOrder[i] = c

\* a < b on strings
RECURSIVE TextLess(_, _)
TextLess(a, b) ==
    IF b = <<>> THEN FALSE
    ELSE IF a = <<>> THEN TRUE
    ELSE IF Code(Head(a)) # Code(Head(b)) THEN Code(Head(a)) < Code(Head(b))
    ELSE TextLess(Tail(a), Tail(b))

\* strings.Contains(s, c) for one character
Contains(s, c) == \E i \in 1..Len(s) : s[i] = c

\* len(strings.Split(s, "/"))
SplitCount(s) == 1 + Cardinality({i \in 1..Len(s) : s[i] = "/"})

\* the first group of fmtImports: fewer than three path elements and no dot
LibraryStyle(imp) == SplitCount(imp.Path) < 3 /\ ~Contains(imp.Path, ".")

\* sort.Slice of a group by Path.Value
RECURSIVE SortByPath(_)
SortByPath(group) ==
    IF group = <<>> THEN <<>>
    ELSE LET k == CHOOSE i \in 1..Len(group) :
                      /\ \A j \in 1..Len(group) : ~TextLess(group[j].Path, group[i].Path)
                      /\ \A j \in 1..(i - 1) : TextLess(group[i].Path, group[j].Path)
         IN  <<group[k]>> \o SortByPath(SubSeq(group, 1, k - 1)
                                            \o SubSeq(group, k + 1, Len(group)))

\* fmtImports: nothing for no import, else the two groups, each sorted
fmtImports(pkgs) ==
    IF Len(pkgs) = 0 THEN <<>>
    ELSE <<SortByPath(SelectSeq(pkgs, LibraryStyle)),
           SortByPath(SelectSeq(pkgs, LAMBDA imp : ~LibraryStyle(imp)))>>

\* the "out" template
OutFile(pkg, acc) ==
    [GeneratorName  |-> generatorName,
     PackageName    |-> pkg.Name,
     ImportPackages |-> fmtImports(acc.importPackages),
     Body           |-> acc.body]

\* whether a tag value reads as an expression: the constants of this model
\* are operands (letters, digits, dots, quotes); anything else does not parse
IsExpr(text) ==
    /\ text # <<>>
    /\ \A i \in 1..Len(text) :
           \/ IsLetter(text[i])
           \/ text[i] \in {"0", "1", "2", "3", "4", "5", "6", "7", "8", "9",
                           ".", "\"", "_"}

\* the keywords of Go: none of them can be a parameter's name
Keywords ==
    { <<"b", "r", "e", "a", "k">>,
      <<"d", "e", "f", "a", "u", "l", "t">>,
      <<"f", "u", "n", "c">>,
      <<"i", "n", "t", "e", "r", "f", "a", "c", "e">>,
      <<"s", "e", "l", "e", "c", "t">>,
      <<"c", "a", "s", "e">>,
      <<"d", "e", "f", "e", "r">>,
      <<"g", "o">>,
      <<"m", "a", "p">>,
      <<"s", "t", "r", "u", "c", "t">>,
      <<"c", "h", "a", "n">>,
      <<"e", "l", "s", "e">>,
      <<"g", "o", "t", "o">>,
      <<"p", "a", "c", "k", "a", "g", "e">>,
      <<"s", "w", "i", "t", "c", "h">>,
      <<"c", "o", "n", "s", "t">>,
      <<"f", "a", "l", "l", "t", "h", "r", "o", "u", "g", "h">>,
      <<"i", "f">>,
      <<"r", "a", "n", "g", "e">>,
      <<"t", "y", "p", "e">>,
      <<"c", "o", "n", "t", "i", "n", "u", "e">>,
      <<"f", "o", "r">>,
      <<"i", "m", "p", "o", "r", "t">>,
      <<"r", "e", "t", "u", "r", "n">>,
      <<"v", "a", "r">> }

\* format.Source succeeds: every constant a constructor emits parses and no
\* parameter is named by a keyword (all other text of the file comes from
\* the parsed source or from the templates)
SourceFormats(constructors) ==
    \A i \in 1..Len(constructors) :
        /\ \A k \in 1..Len(constructors[i].Inits) :
               IsExpr(constructors[i].Inits[k].Value)
        /\ \A k \in 1..Len(constructors[i].Params) :
               constructors[i].Params[k].Name \notin Keywords

-----------------------------------------------------------------------------
(* Run.                                                                    *)

Packages == DOMAIN dir.pkgMap

\* parser.ParseDir fails: Run returns its error
ParseDirFail ==
    /\ pc = "start"
    /\ ~dir.parseOK
    /\ result' = "parseErr"
    /\ pc' = "done"
    /\ UNCHANGED <<dir, remaining, cur, body, importPackages, opened, isCloser,
                   writes, out, closed, deferred, name, lowered>>

\* parser.ParseDir succeeds: the loop over pkgMap starts
ParseDirOK ==
    /\ pc = "start"
    /\ dir.parseOK
    /\ remaining' = Packages
    /\ pc' = "loop"
    /\ UNCHANGED <<dir, cur, body, importPackages, opened, isCloser, writes,
                   out, closed, deferred, result, name, lowered>>

\* printer.Fprint fails on a collected field's type: Run returns the error
PrintFail(p) ==
    /\ pc = "loop"
    /\ p \in remaining
    /\ ScanPackage(dir.pkgMap[p]).status = "printErr"
    /\ result' = "printErr"
    /\ pc' = "ret"
    /\ UNCHANGED <<dir, remaining, cur, body, importPackages, opened, isCloser,
                   writes, out, closed, deferred, name, lowered>>

\* field.Type.(*ast.Ident) fails on an embedded field: Run panics
EmbeddedPanic(p) ==
    /\ pc = "loop"
    /\ p \in remaining
    /\ ScanPackage(dir.pkgMap[p]).status = "panic"
    /\ result' = "panic"
    /\ pc' = "ret"
    /\ UNCHANGED <<dir, remaining, cur, body, importPackages, opened, isCloser,
                   writes, out, closed, deferred, name, lowered>>

\* body.Len() == 0: the package is passed over
SkipPackage(p) ==
    /\ pc = "loop"
    /\ p \in remaining
    /\ LET acc == ScanPackage(dir.pkgMap[p])
       IN  acc.status = "ok" /\ Len(acc.body) = 0
    /\ remaining' = remaining \ {p}
    /\ UNCHANGED <<pc, dir, cur, body, importPackages, opened, isCloser, writes,
                   out, closed, deferred, result, name, lowered>>

\* a Run that calls newWriter before it formats the file
FormatFail_AfterOpen(p) ==
    /\ pc = "loop"
    /\ p \in remaining
    /\ LET acc == ScanPackage(dir.pkgMap[p])
       IN  acc.status = "ok" /\ Len(acc.body) # 0 /\ ~SourceFormats(acc.body)
    /\ opened' = [opened EXCEPT ![p] = @ + 1]
    /\ result' = "formatErr"
    /\ pc' = "ret"
    /\ UNCHANGED <<dir, remaining, cur, body, importPackages, isCloser, writes,
                   out, closed, deferred, name, lowered>>

\* format.Source fails on the generated file: Run returns the error
FormatFail(p) ==
    /\ pc = "loop"
    /\ p \in remaining
    /\ LET acc == ScanPackage(dir.pkgMap[p])
       IN  acc.status = "ok" /\ Len(acc.body) # 0 /\ ~SourceFormats(acc.body)
    /\ result' = "formatErr"
    /\ pc' = "ret"
    /\ UNCHANGED <<dir, remaining, cur, body, importPackages, opened, isCloser,
                   writes, out, closed, deferred, name, lowered>>

\* the file of the package is generated and formatted
Generate(p) ==
    /\ pc = "loop"
    /\ p \in remaining
    /\ LET acc == ScanPackage(dir.pkgMap[p])
       IN  /\ acc.status = "ok" /\ Len(acc.body) # 0 /\ SourceFormats(acc.body)
           /\ body' = acc.body
           /\ importPackages' = acc.importPackages
    /\ cur' = p
    /\ pc' = "open"
    /\ UNCHANGED <<dir, remaining, opened, isCloser, writes, out, closed,
                   deferred, result, name, lowered>>

\* a Run that never defers Close
NewWriter_NoDefer ==
    /\ pc = "open"
    /\ \E closer \in BOOLEAN : isCloser' = [isCloser EXCEPT ![cur] = closer]
    /\ opened' = [opened EXCEPT ![cur] = @ + 1]
    /\ pc' = "write"
    /\ UNCHANGED <<dir, remaining, cur, body, importPackages, writes, out,
                   closed, deferred, result, name, lowered>>

\* newWriter(pkg) returns a writer; its Close is deferred when it has one
NewWriter ==
    /\ pc = "open"
    /\ \E closer \in BOOLEAN :
           /\ isCloser' = [isCloser EXCEPT ![cur] = closer]
           /\ deferred' = IF closer THEN Append(deferred, cur) ELSE deferred
    /\ opened' = [opened EXCEPT ![cur] = @ + 1]
    /\ pc' = "write"
    /\ UNCHANGED <<dir, remaining, cur, body, importPackages, writes, out,
                   closed, result, name, lowered>>

\* newWriter(pkg) panics, as the one of Main does when os.Create fails
NewWriterPanic ==
    /\ pc = "open"
    /\ opened' = [opened EXCEPT ![cur] = @ + 1]
    /\ result' = "panic"
    /\ pc' = "ret"
    /\ UNCHANGED <<dir, remaining, cur, body, importPackages, isCloser, writes,
                   out, closed, deferred, name, lowered>>

\* writer.Write(str) succeeds: the next package
WriteOK ==
    /\ pc = "write"
    /\ writes' = [writes EXCEPT ![cur] = @ + 1]
    /\ out' = [out EXCEPT ![cur] =
                   <<OutFile(dir.pkgMap[cur],
                             [body |-> body, importPackages |-> importPackages])>>]
    /\ remaining' = remaining \ {cur}
    /\ body' = <<>>
    /\ importPackages' = <<>>
    /\ pc' = "loop"
    /\ UNCHANGED <<dir, cur, opened, isCloser, closed, deferred, result, name,
                   lowered>>

\* writer.Write(str) fails: Run returns the error
WriteFail ==
    /\ pc = "write"
    /\ writes' = [writes EXCEPT ![cur] = @ + 1]
    /\ result' = "writeErr"
    /\ pc' = "ret"
    /\ UNCHANGED <<dir, remaining, cur, body, importPackages, opened, isCloser,
                   out, closed, deferred, name, lowered>>

\* the loop over pkgMap is over: return nil
LoopEnd ==
    /\ pc = "loop"
    /\ remaining = {}
    /\ result' = "nil"
    /\ pc' = "ret"
    /\ UNCHANGED <<dir, remaining, cur, body, importPackages, opened, isCloser,
                   writes, out, closed, deferred, name, lowered>>

\* Run is left: the deferred Close calls run, the last deferred first
RunDeferred ==
    /\ pc = "ret"
    /\ deferred # <<>>
    /\ closed' = [closed EXCEPT ![deferred[Len(deferred)]] = @ + 1]
    /\ deferred' = SubSeq(deferred, 1, Len(deferred) - 1)
    /\ UNCHANGED <<pc, dir, remaining, cur, body, importPackages, opened,
                   isCloser, writes, out, result, name, lowered>>

\* Run has returned (or the panic has left it)
Return ==
    /\ pc = "ret"
    /\ deferred = <<>>
    /\ pc' = "done"
    /\ UNCHANGED <<dir, remaining, cur, body, importPackages, opened, isCloser,
                   writes, out, closed, deferred, result, name, lowered>>

\* a call of toLowerCamel
CallToLowerCamel ==
    /\ pc = "camel"
    /\ lowered = <<>>
    /\ lowered' = <<toLowerCamel(name)>>
    /\ UNCHANGED <<runVars, name>>

-----------------------------------------------------------------------------
(* The directories the model is run on.                                    *)

\* the longest field list of the generated structures
MaxFields == 2

\* the longest doc comment, in lines
MaxDocLines == 2

\* the longest import list of a file
MaxImports == 2

\* the most packages of a directory
MaxPkgs == 2

\* the longest argument of toLowerCamel
MaxNameLen == 3

SeqsUpTo(S, n) == UNION {[1..k -> S] : k \in 0..n}

\* A string
fieldA ==
    [Names |-> <<nameA>>, Type |-> typeString, hasTag |-> FALSE,
     Tag |-> <<>>, printable |-> TRUE]

\* B int `required:"7"`
fieldB ==
    [Names |-> <<nameB>>, Type |-> typeInt, hasTag |-> TRUE,
     Tag |-> tag7, printable |-> TRUE]

\* C int `json:"c"`
fieldC ==
    [Names |-> <<nameC>>, Type |-> typeInt, hasTag |-> TRUE,
     Tag |-> tagJson, printable |-> TRUE]

\* ID string `required:""`
fieldID ==
    [Names |-> <<nameID>>, Type |-> typeString, hasTag |-> TRUE,
     Tag |-> tagEmpty, printable |-> TRUE]

\* Name, URL string `json:"c" required:""`
fieldName ==
    [Names |-> <<nameName, nameURL>>, Type |-> typeString, hasTag |-> TRUE,
     Tag |-> tagJsonEmpty,
     printable |-> TRUE]

\* Cert *x509.Certificate `required:""`
fieldCert ==
    [Names |-> <<nameCert>>, Type |-> typeCert, hasTag |-> TRUE,
     Tag |-> tagEmpty, printable |-> TRUE]

\* At time.Time `required:""`
fieldAt ==
    [Names |-> <<nameAt>>, Type |-> typeTime, hasTag |-> TRUE,
     Tag |-> tagEmpty, printable |-> TRUE]

\* Msg map[string]pb.Msg `required:""`
fieldMsg ==
    [Names |-> <<nameMsg>>, Type |-> typeMsg, hasTag |-> TRUE,
     Tag |-> tagEmpty, printable |-> TRUE]

\* Q int "required:\"\"", the tag an interpreted string literal
fieldQ ==
    [Names |-> <<nameQ>>, Type |-> typeInt, hasTag |-> TRUE,
     Tag |-> tagInterpreted, printable |-> TRUE]

\* S string `required:"\"c\""`
fieldS ==
    [Names |-> <<nameS>>, Type |-> typeString, hasTag |-> TRUE,
     Tag |-> tagQuoted, printable |-> TRUE]

\* X, a collected field whose type printer.Fprint cannot print
fieldX ==
    [Names |-> <<nameX>>, Type |-> <<>>, hasTag |-> TRUE,
     Tag |-> tagEmpty, printable |-> FALSE]

\* Y int `required:")"`
fieldY ==
    [Names |-> <<nameY>>, Type |-> typeInt, hasTag |-> TRUE,
     Tag |-> tagBad, printable |-> TRUE]

\* Base `required:""`, embedded
fieldBase ==
    [Names |-> <<>>, Type |-> typeBase, hasTag |-> TRUE,
     Tag |-> tagEmpty, printable |-> TRUE]

\* *Base `required:""`, embedded
fieldStarBase ==
    [Names |-> <<>>, Type |-> typeStarBase, hasTag |-> TRUE,
     Tag |-> tagEmpty, printable |-> TRUE]

FieldCatalogue ==
    {fieldA, fieldB, fieldC, fieldID, fieldName, fieldCert, fieldAt, fieldMsg,
     fieldQ, fieldS, fieldX, fieldY, fieldBase, fieldStarBase}

LineCatalogue ==
    {lineMarker, lineMarkerP, lineMarkerTabP, linePlain, linePlainP,
     lineLonger, lineGlued, lineSpaced}

\* import "time"
importTime == [hasName |-> FALSE, Name |-> <<>>, Path |-> pathTime]

\* import "crypto/x509"
importX509 == [hasName |-> FALSE, Name |-> <<>>, Path |-> pathX509]

\* import pb "example.com/proto"
importPb == [hasName |-> TRUE, Name |-> aliasPb, Path |-> pathProto]

\* import "example.com/pb"
importPlainPb == [hasName |-> FALSE, Name |-> <<>>, Path |-> pathPb]

ImportCatalogue == {importTime, importX509, importPb, importPlainPb}

\* a type declaration holding one type, with its doc comment if it has one
TypeDecl(hasDoc, doc, typeName, isStruct, fields) ==
    [isGenDecl |-> TRUE, Tok |-> "type", hasDoc |-> hasDoc, Doc |-> doc,
     Specs |-> <<[Name |-> typeName, isStruct |-> isStruct, Fields |-> fields]>>]

\* a var declaration with a doc comment
VarDecl(doc) ==
    [isGenDecl |-> TRUE, Tok |-> "var", hasDoc |-> TRUE, Doc |-> doc,
     Specs |-> <<>>]

\* a function declaration
FuncDecl ==
    [isGenDecl |-> FALSE, Tok |-> "func", hasDoc |-> FALSE, Doc |-> <<>>,
     Specs |-> <<>>]

File(imports, decls) == [Imports |-> imports, Decls |-> decls]

\* a package of one file
OneFile(file) == [Name |-> pkgModel, Files |-> (1 :> file)]

\* a directory of one package
OnePackage(pkg) == [parseOK |-> TRUE, pkgMap |-> (1 :> pkg)]

\* one marked structure T, its fields any list of the catalogue
FieldDirs ==
    {OnePackage(OneFile(File(<<importTime, importX509, importPb>>,
         <<TypeDecl(TRUE, <<doc>>, structT, TRUE, fields)>>))) :
       doc \in {lineMarker, lineMarkerP},
       fields \in SeqsUpTo(FieldCatalogue, MaxFields)}

\* one type T with any doc comment of the catalogue's lines, or none
DocDirs ==
    {OnePackage(OneFile(File(<<>>,
         <<TypeDecl(doc # <<>>, doc, structT, isStruct, <<fieldA, fieldB, fieldID>>)>>))) :
       doc \in SeqsUpTo(LineCatalogue, MaxDocLines), isStruct \in BOOLEAN}

\* one marked structure T whose field types name packages, in a file with
\* any import list of the catalogue
ImportDirs ==
    {OnePackage(OneFile(File(imports,
         <<TypeDecl(TRUE, <<lineMarker>>, structT, TRUE, fields)>>))) :
       imports \in SeqsUpTo(ImportCatalogue, MaxImports),
       fields \in {<<fieldCert, fieldAt>>, <<fieldMsg, fieldAt>>, <<fieldMsg, fieldB>>}}

\* a package without any marker
pkgPlain ==
    [Name |-> pkgMain,
     Files |-> (1 :> File(<<importTime>>,
                     <<FuncDecl,
                       TypeDecl(FALSE, <<>>, structT, TRUE, <<fieldB, fieldAt>>),
                       TypeDecl(TRUE, <<linePlain>>, structU, TRUE, <<fieldID>>)>>))]

\* a package whose marker is on a var declaration and a type that is no
\* structure
pkgNoStruct ==
    [Name |-> pkgMain,
     Files |-> (1 :> File(<<>>,
                     <<VarDecl(<<lineMarker>>),
                       TypeDecl(TRUE, <<lineMarkerP>>, structT, FALSE, <<>>)>>))]

\* a package with one marked structure
pkgMarked ==
    [Name |-> pkgModel,
     Files |-> (1 :> File(<<>>,
                     <<TypeDecl(TRUE, <<lineMarker>>, structT, TRUE,
                                <<fieldA, fieldB, fieldID>>)>>))]

\* a package of two files, each with a marked structure and its own imports
pkgTwoFiles ==
    [Name |-> pkgModel,
     Files |-> (2 :> File(<<importTime>>,
                     <<TypeDecl(TRUE, <<linePlain, lineMarkerP>>, structU, TRUE,
                                <<fieldAt>>)>>)
             @@ 1 :> File(<<importPb>>,
                     <<FuncDecl,
                       TypeDecl(TRUE, <<lineMarker>>, structV, TRUE,
                                <<fieldMsg, fieldName>>)>>))]

\* a package with a field type that cannot be printed
pkgPrint ==
    [Name |-> pkgModel,
     Files |-> (1 :> File(<<>>,
                     <<TypeDecl(TRUE, <<lineMarker>>, structT, TRUE,
                                <<fieldB, fieldX>>)>>))]

\* a package with a constant that is no expression
pkgFormat ==
    [Name |-> pkgModel,
     Files |-> (1 :> File(<<>>,
                     <<TypeDecl(TRUE, <<lineMarker>>, structT, TRUE,
                                <<fieldY>>)>>))]

\* a package with an embedded pointer field
pkgEmbedded ==
    [Name |-> pkgModel,
     Files |-> (1 :> File(<<>>,
                     <<TypeDecl(TRUE, <<lineMarkerP>>, structT, TRUE,
                                <<fieldBase, fieldStarBase>>)>>))]

PackageCatalogue ==
    {pkgPlain, pkgNoStruct, pkgMarked, pkgTwoFiles, pkgPrint, pkgFormat,
     pkgEmbedded}

\* directories of several packages, and directories ParseDir fails on
PackageDirs ==
    {[parseOK |-> ok, pkgMap |-> m] :
       ok \in BOOLEAN,
       m \in UNION {[S -> PackageCatalogue] : S \in SUBSET (1..MaxPkgs)}}

Dirs == FieldDirs \cup DocDirs \cup ImportDirs \cup PackageDirs

\* the arguments of toLowerCamel: the names of the fields above and every
\* text of a few letters
NameLetters == {"I", "D", "L", "d", "a"}

NameInputs ==
    SeqsUpTo(NameLetters, MaxNameLen)
        \cup {nameA, nameB, nameC, nameID, nameName, nameURL, nameCert, nameAt,
              nameMsg, nameX, nameY, typeBase}

-----------------------------------------------------------------------------
(* The specifications.                                                     *)

\* Run is called on a directory
Init ==
    /\ dir \in Dirs
    /\ pc = "start"
    /\ remaining = {}
    /\ cur = 0
    /\ body = <<>>
    /\ importPackages = <<>>
    /\ opened = [p \in Packages |-> 0]
    /\ isCloser = [p \in Packages |-> FALSE]
    /\ writes = [p \in Packages |-> 0]
    /\ out = [p \in Packages |-> <<>>]
    /\ closed = [p \in Packages |-> 0]
    /\ deferred = <<>>
    /\ result = "none"
    /\ name = <<>>
    /\ lowered = <<>>

Next ==
    \/ ParseDirFail
    \/ ParseDirOK
    \/ \E p \in Packages : PrintFail(p)
    \/ \E p \in Packages : EmbeddedPanic(p)
    \/ \E p \in Packages : SkipPackage(p)
    \/ \E p \in Packages : FormatFail(p)
    \/ \E p \in Packages : Generate(p)
    \/ NewWriter
    \/ NewWriterPanic
    \/ WriteOK
    \/ WriteFail
    \/ LoopEnd
    \/ RunDeferred
    \/ Return

Spec == Init /\ [][Next]_vars

\* toLowerCamel is called on a name
InitCamel ==
    /\ name \in NameInputs
    /\ lowered = <<>>
    /\ pc = "camel"
    /\ dir = [parseOK |-> TRUE, pkgMap |-> <<>>]
    /\ remaining = {}
    /\ cur = 0
    /\ body = <<>>
    /\ importPackages = <<>>
    /\ opened = <<>>
    /\ isCloser = <<>>
    /\ writes = <<>>
    /\ out = <<>>
    /\ closed = <<>>
    /\ deferred = <<>>
    /\ result = "none"

NextCamel == CallToLowerCamel

SpecCamel == InitCamel /\ [][NextCamel]_vars

-----------------------------------------------------------------------------
(* What the properties below speak of.                                     *)

\* the type specs of a package, each with its declaration and its file
Entries(pkg) ==
    UNION { UNION { { [file |-> pkg.Files[f],
                       decl |-> pkg.Files[f].Decls[d],
                       spec |-> pkg.Files[f].Decls[d].Specs[k]] :
                      k \in 1..Len(pkg.Files[f].Decls[d].Specs) } :
                    d \in 1..Len(pkg.Files[f].Decls) } :
            f \in DOMAIN pkg.Files }

\* the constructors of the file written for package p
Constructors(p) == IF out[p] = <<>> THEN {} ELSE Range(out[p][1].Body)

\* the import specs of the file written for package p
Recorded(p) ==
    IF out[p] = <<>> \/ out[p][1].ImportPackages = <<>> THEN {}
    ELSE Range(out[p][1].ImportPackages[1]) \cup Range(out[p][1].ImportPackages[2])

\* the type specs of package p a written constructor is named after
Generated(p) ==
    {e \in Entries(dir.pkgMap[p]) :
        \E c \in Constructors(p) : c.StructName = e.spec.Name}

\* the comment line begins with the marker token
BeginsWithMarker(line) ==
    /\ Len(line) >= Len(commentMarker)
    /\ \A i \in 1..Len(commentMarker) : line[i] = commentMarker[i]

\* the first word of the comment line is the marker token
FirstWordIsMarker(line) ==
    Fields(line) # <<>> /\ Fields(line)[1] = commentMarker

\* the first line of the doc comment that begins with the marker token
FirstMarkerLine(doc) ==
    doc[CHOOSE i \in 1..Len(doc) :
            /\ BeginsWithMarker(doc[i])
            /\ \A j \in 1..(i - 1) : ~BeginsWithMarker(doc[j])]

\* the constant a collected field carries, empty when it carries none
ConstOf(field) == Lookup(StructTagOf(field), keyRequired).value

\* the fields of a structure that are collected, in declaration order
CollectedOf(spec) == SelectSeq(spec.Fields, FieldCollected)

\* those of them that carry no constant
NoConstOf(spec) ==
    SelectSeq(spec.Fields, LAMBDA f : FieldCollected(f) /\ ConstOf(f) = <<>>)

\* the tag of a field as the language defines it: the value of the string
\* literal, raw between backquotes or interpreted between double quotes
TagString(field) ==
    IF Head(field.Tag) = backquote
    THEN SubSeq(field.Tag, 2, Len(field.Tag) - 1)
    ELSE Unquote(field.Tag)

\* the field's tag has the key "required"; the value of that key
HasRequired(field) ==
    field.hasTag /\ Lookup(TagString(field), keyRequired).ok

RequiredValue(field) == Lookup(TagString(field), keyRequired).value

\* the names of the fields one field declaration declares: the names of its
\* list, or the type name of an embedded field
DeclaredNames(field) ==
    IF field.Names # <<>> THEN Range(field.Names)
    ELSE IF IsIdent(field.Type) THEN {field.Type}
    ELSE {}

-----------------------------------------------------------------------------
(* C2.  toLowerCamel.                                                      *)

\* a known initialism: upper case letters that spell an entry of the table
KnownInitialism(s) ==
    /\ s # <<>>
    /\ \A i \in 1..Len(s) : IsUpper(s[i])
    /\ ToLower(s) \in commonInitialisms

\* C2: toLowerCamel maps a name that is a known initialism to the name in
\* lower case ("ID" to "id", "URL" to "url") and every other non-empty name
\* to the name with only its first letter in lower case ("Name" to "name").
C2_InitialismsFullyLowered ==
    (lowered # <<>> /\ name # <<>>) =>
        lowered[1] = IF KnownInitialism(name)
                     THEN ToLower(name)
                     ELSE <<ToLowerChar(name[1])>> \o Tail(name)

-----------------------------------------------------------------------------
(* C1, C3, C4.  The parameters and the initializers of a constructor.      *)

\* C1: the parameters of a generated constructor are exactly the collected
\* fields without a constant, once each, in the order of their declaration.
C1_ParamsAreNoConstFields ==
    \A p \in Packages : \A c \in Constructors(p) : \A e \in Generated(p) :
        e.spec.Name = c.StructName =>
            LET want == NoConstOf(e.spec)
            IN  /\ Len(c.Params) = Len(want)
                /\ \A i \in 1..Len(want) :
                       /\ c.Params[i].Type = want[i].Type
                       /\ c.Params[i].Name = toLowerCamel(FieldName(want[i]))

\* a constructor is written for a structure with a constant field declared
\* before a field without constant
C1_Witness ==
    \E p \in Packages : \E c \in Constructors(p) : \E e \in Generated(p) :
        /\ e.spec.Name = c.StructName
        /\ e.spec.Fields = <<fieldB, fieldID>>
        /\ Len(c.Params) = 1

\* the structure of C3: A string without tag, B int `required:"7"`
IsC3Struct(e) == e.spec.isStruct /\ e.spec.Fields = <<fieldA, fieldB>>

\* C3 as stated: the constructor of that structure takes the one parameter
\* "a string" and returns the structure with A: a, B: 7.
C3_TakesUntaggedField ==
    \A p \in Packages : \A c \in Constructors(p) : \A e \in Generated(p) :
        (e.spec.Name = c.StructName /\ IsC3Struct(e)) =>
            /\ c.Params = <<[Name |-> <<"a">>, Type |-> typeString]>>
            /\ c.Inits = <<[Key |-> nameA, Value |-> <<"a">>],
                           [Key |-> nameB, Value |-> const7]>>

\* C3 amended: the constructor of that structure takes no parameter and
\* returns the structure with B: 7 only; the untagged field A is passed over.
C3_SkipsUntaggedField ==
    \A p \in Packages : \A c \in Constructors(p) : \A e \in Generated(p) :
        (e.spec.Name = c.StructName /\ IsC3Struct(e)) =>
            /\ c.Params = <<>>
            /\ c.Inits = <<[Key |-> nameB, Value |-> const7]>>

\* a constructor is written for that structure
C3_Witness ==
    \E p \in Packages : \E e \in Generated(p) : IsC3Struct(e)

\* C4: a field whose tag has the key "required" with an empty value is a
\* parameter of the constructor and is initialized from that parameter; one
\* whose value is not empty is initialized with the value as it stands and is
\* no parameter.
C4_EmptyValueIsParameter ==
    \A p \in Packages : \A c \in Constructors(p) : \A e \in Generated(p) :
        e.spec.Name = c.StructName =>
            \A k \in 1..Len(e.spec.Fields) :
                LET f == e.spec.Fields[k]
                    v == RequiredValue(f)
                IN  HasRequired(f) =>
                        \A n \in DeclaredNames(f) :
                            IF v = <<>>
                            THEN /\ [Name |-> toLowerCamel(n), Type |-> f.Type]
                                        \in Range(c.Params)
                                 /\ [Key |-> n, Value |-> toLowerCamel(n)]
                                        \in Range(c.Inits)
                            ELSE /\ [Key |-> n, Value |-> v] \in Range(c.Inits)
                                 /\ \A i \in 1..Len(c.Params) :
                                        c.Params[i].Name = toLowerCamel(n) =>
                                            \E g \in Range(NoConstOf(e.spec)) :
                                                toLowerCamel(FieldName(g)) = toLowerCamel(n)

\* what holds of every field the scan collects: it is initialized under its
\* first name, at its place among the collected fields, from a parameter of
\* its type when its constant is empty and with the constant otherwise
CollectedFieldsInitialized ==
    \A p \in Packages : \A c \in Constructors(p) : \A e \in Generated(p) :
        e.spec.Name = c.StructName =>
            LET coll == CollectedOf(e.spec)
            IN  /\ Len(c.Inits) = Len(coll)
                /\ \A k \in 1..Len(coll) :
                       LET n == FieldName(coll[k])
                           v == ConstOf(coll[k])
                       IN  /\ c.Inits[k].Key = n
                           /\ IF v = <<>>
                              THEN /\ c.Inits[k].Value = toLowerCamel(n)
                                   /\ \E i \in 1..Len(c.Params) :
                                          /\ c.Params[i].Name = c.Inits[k].Value
                                          /\ c.Params[i].Type = coll[k].Type
                              ELSE /\ c.Inits[k].Value = v
                                   /\ \A i \in 1..Len(c.Params) :
                                          c.Params[i].Name = toLowerCamel(n) =>
                                              \E g \in Range(NoConstOf(e.spec)) :
                                                  toLowerCamel(FieldName(g)) = toLowerCamel(n)

\* a constructor is written for a structure with an empty-valued field and a
\* field with a constant
CollectedFieldsCase ==
    \E p \in Packages : \E c \in Constructors(p) : \E e \in Generated(p) :
        /\ e.spec.Name = c.StructName
        /\ e.spec.Fields = <<fieldID, fieldB>>
        /\ c.Inits[1].Value = c.Params[1].Name
        /\ c.Inits[2].Value = const7

\* what holds of a field declaration with one name and a raw string tag: the
\* field is initialized as C4 says
OneNameRawTag(field) ==
    /\ Len(field.Names) = 1
    /\ field.hasTag => Head(field.Tag) = backquote

SingleRawFieldsInitialized ==
    \A p \in Packages : \A c \in Constructors(p) : \A e \in Generated(p) :
        e.spec.Name = c.StructName =>
            \A k \in 1..Len(e.spec.Fields) :
                LET f == e.spec.Fields[k]
                    v == RequiredValue(f)
                IN  (HasRequired(f) /\ OneNameRawTag(f)) =>
                        /\ [Key |-> f.Names[1],
                            Value |-> IF v = <<>> THEN toLowerCamel(f.Names[1])
                                      ELSE v] \in Range(c.Inits)
                        /\ v = <<>> =>
                               [Name |-> toLowerCamel(f.Names[1]), Type |-> f.Type]
                                   \in Range(c.Params)

-----------------------------------------------------------------------------
(* C5, C9.  The marker and the pointer option.                             *)

\* C5: a generated constructor returns *T and builds &T{...} exactly when -p
\* is a word of the marker comment line (the first line of the doc comment
\* that holds the marker); otherwise it returns T and builds T{...}.  The
\* star and the ampersand always go together.
C5_PointerIffOptionOnMarkerLine ==
    \A p \in Packages : \A c \in Constructors(p) : \A e \in Generated(p) :
        e.spec.Name = c.StructName =>
            /\ c.Star = c.Amp
            /\ \E i \in 1..Len(e.decl.Doc) : BeginsWithMarker(e.decl.Doc[i])
            /\ c.Star <=> (pointerOpts \in Range(Fields(FirstMarkerLine(e.decl.Doc))))

\* a constructor returning a pointer is written for a structure whose marker
\* line, the second line of its doc comment, holds -p
C5_Witness ==
    \E p \in Packages : \E c \in Constructors(p) : \E e \in Generated(p) :
        /\ e.spec.Name = c.StructName
        /\ e.decl.Doc = <<linePlain, lineMarkerP>>
        /\ c.Star /\ c.Amp

\* Run has returned nil: every package was passed over or written
Finished == pc = "done" /\ result = "nil"

\* C9 as stated: a type is selected exactly when some line of its doc comment
\* has the marker token as its first word and the type is a structure.
C9_SelectedIffFirstWordIsMarker ==
    Finished =>
        \A p \in Packages : \A e \in Entries(dir.pkgMap[p]) :
            (e \in Generated(p)) <=>
                /\ e.decl.hasDoc
                /\ \E i \in 1..Len(e.decl.Doc) : FirstWordIsMarker(e.decl.Doc[i])
                /\ e.spec.isStruct

\* C9 amended: a type is selected exactly when some line of its doc comment
\* begins with the marker token (which further characters may follow at
\* once) and the type is a structure.
C9_SelectedIffLineBeginsWithMarker ==
    Finished =>
        \A p \in Packages : \A e \in Entries(dir.pkgMap[p]) :
            (e \in Generated(p)) <=>
                /\ e.decl.hasDoc
                /\ \E i \in 1..Len(e.decl.Doc) : BeginsWithMarker(e.decl.Doc[i])
                /\ e.spec.isStruct

\* a constructor is written for a structure whose only marker line is the
\* second line of its doc comment and has a longer first word
C9_Witness ==
    /\ Finished
    /\ \E p \in Packages : \E e \in Generated(p) :
           e.decl.Doc = <<linePlain, lineLonger>>

-----------------------------------------------------------------------------
(* C6, C7, C8.  The sinks.                                                 *)

\* the package has a type declaration annotated with the marker
HasMarkedType(pkg) ==
    \E e \in Entries(pkg) :
        /\ e.decl.hasDoc
        /\ \E i \in 1..Len(e.decl.Doc) : BeginsWithMarker(e.decl.Doc[i])

\* C6: for a package without marker-annotated type newWriter is never called
\* and nothing is written, whatever else the run processes.
C6_NoMarkerNoSink ==
    \A p \in Packages :
        ~HasMarkedType(dir.pkgMap[p]) =>
            opened[p] = 0 /\ writes[p] = 0 /\ out[p] = <<>>

\* Run has returned nil on a directory of a package without marker and a
\* package that was written
C6_Witness ==
    /\ Finished
    /\ \E p, q \in Packages :
           /\ ~HasMarkedType(dir.pkgMap[p])
           /\ HasMarkedType(dir.pkgMap[q])
           /\ out[q] # <<>>

\* Run has ended with a structural error
StructuralError == result \in {"parseErr", "printErr", "formatErr"}

\* C7 as stated: when Run returns a structural error, no sink of any package
\* has been opened or written.
C7_NoOutputAtAll ==
    StructuralError => \A p \in Packages : opened[p] = 0 /\ writes[p] = 0

\* C7 amended: when Run returns a structural error, every sink that has been
\* opened belongs to a package whose file was written in full before the
\* failure; the failing package and the packages not yet visited have no
\* sink, and after a parse failure there is no sink at all.
C7_NoOutputFromFailureOn ==
    StructuralError =>
        /\ \A p \in Packages :
               opened[p] # 0 \/ writes[p] # 0 =>
                   out[p] # <<>> /\ p \notin remaining
        /\ result = "parseErr" => \A p \in Packages : opened[p] = 0

\* Run has returned a format error after another package was written
C7_Witness ==
    /\ pc = "done"
    /\ result = "formatErr"
    /\ \E p \in Packages : out[p] # <<>>

\* the state part of C8
SinkLifecycle ==
    \A p \in Packages :
        /\ opened[p] <= 1
        /\ closed[p] <= 1
        /\ writes[p] <= opened[p]
        /\ out[p] # <<>> => opened[p] = 1
        /\ closed[p] = 1 => isCloser[p] /\ writes[p] = 1
        /\ (pc = "done" /\ isCloser[p]) => closed[p] = 1

\* C8: the sink of a package with output is opened once; if it has Close it
\* is closed once, after the write was attempted and before Run is left, on
\* success and on a write error alike; no sink is written once it is closed.
C8_OpenedOnceClosedOnce ==
    /\ []SinkLifecycle
    /\ [][\A p \in Packages : closed[p] > 0 => writes'[p] = writes[p]]_vars

\* Run has returned a write error with two sinks closed
C8_Witness ==
    /\ pc = "done"
    /\ result = "writeErr"
    /\ \E p, q \in Packages :
           /\ p # q
           /\ closed[p] = 1 /\ out[p] # <<>>
           /\ closed[q] = 1 /\ out[q] = <<>> /\ writes[q] = 1

-----------------------------------------------------------------------------
(* C10.  The imports recorded for the generated file.                      *)

Digits == {"0", "1", "2", "3", "4", "5", "6", "7", "8", "9"}

\* the maximal runs of identifier characters and dots of a type text
QualifiedWords(text) ==
    SplitRuns(text,
              [i \in 1..Len(text) |->
                  ~(IsLetter(text[i]) \/ text[i] \in Digits \cup {"_", "."})],
              1, <<>>)

\* the maximal runs of letters and dots of a type text
LetterWords(text) ==
    SplitRuns(text,
              [i \in 1..Len(text) |-> ~(IsLetter(text[i]) \/ text[i] = ".")],
              1, <<>>)

\* the part of a word before its first dot
Qualifier(word) ==
    SubSeq(word, 1, (CHOOSE i \in 1..Len(word) :
                         word[i] = "." /\ \A j \in 1..(i - 1) : word[j] # ".") - 1)

\* the package names of the package.Identifier references of a type text,
\* read as Go reads it
References(text) ==
    {Qualifier(w) : w \in {x \in Range(QualifiedWords(text)) : Contains(x, ".")}}

\* the same, a reference being a run of letters and dots that holds a dot
LetterReferences(text) ==
    {Qualifier(w) : w \in {x \in Range(LetterWords(text)) : Contains(x, ".")}}

\* the last segment of an import path, the quotes taken off
LastSegment(path) ==
    LET bare == SubSeq(path, 2, Len(path) - 1)
        slashes == {i \in 1..Len(bare) : bare[i] = "/"}
    IN  IF slashes = {} THEN bare
        ELSE SubSeq(bare, 1 + (CHOOSE i \in slashes : \A j \in slashes : j <= i),
                    Len(bare))

\* the import is named as the package of a reference is
Names(imp, package) ==
    IF imp.hasName THEN imp.Name = package ELSE LastSegment(imp.Path) = package

\* the first import of the list that is named so
FirstNamed(imports, package) ==
    imports[CHOOSE i \in 1..Len(imports) :
                /\ Names(imports[i], package)
                /\ \A j \in 1..(i - 1) : ~Names(imports[j], package)]

\* C10: for every package.Identifier reference of a collected field's type,
\* if the file has an import with that alias (or, unaliased, that last path
\* segment), such an import is recorded for the generated file; without such
\* an import nothing is recorded for the reference.
C10_EveryReferenceResolved ==
    Finished =>
        \A p \in Packages :
            /\ \A e \in Generated(p) : \A f \in Range(CollectedOf(e.spec)) :
                   \A package \in References(f.Type) :
                       (\E imp \in Range(e.file.Imports) : Names(imp, package)) =>
                           \E imp \in Recorded(p) :
                               imp \in Range(e.file.Imports) /\ Names(imp, package)
            /\ \A imp \in Recorded(p) :
                   \E e \in Generated(p) : \E f \in Range(CollectedOf(e.spec)) :
                       \E package \in References(f.Type) :
                           imp \in Range(e.file.Imports) /\ Names(imp, package)

\* what Run does record: a reference is taken to be a run of letters and
\* dots that holds a dot, so a package whose name has a digit or an
\* underscore is not found; for every such reference the first import of
\* the file with that alias (or, unaliased, that last path segment) is
\* recorded, and nothing else is.
LetterReferencesResolved ==
    Finished =>
        \A p \in Packages :
            /\ \A e \in Generated(p) : \A f \in Range(CollectedOf(e.spec)) :
                   \A package \in LetterReferences(f.Type) :
                       (\E imp \in Range(e.file.Imports) : Names(imp, package)) =>
                           FirstNamed(e.file.Imports, package) \in Recorded(p)
            /\ \A imp \in Recorded(p) :
                   \E e \in Generated(p) : \E f \in Range(CollectedOf(e.spec)) :
                       \E package \in LetterReferences(f.Type) :
                           /\ \E i \in Range(e.file.Imports) : Names(i, package)
                           /\ imp = FirstNamed(e.file.Imports, package)

\* a file is written for a structure with a field of type map[string]pb.Msg
\* in a file that imports pb "example.com/proto" and "time": the first is
\* recorded, the second is not
LetterReferencesCase ==
    /\ Finished
    /\ \E p \in Packages : \E e \in Generated(p) :
           /\ e.spec.Fields = <<fieldMsg, fieldB>>
           /\ e.file.Imports = <<importTime, importPb>>
           /\ Recorded(p) = {importPb}

=============================================================================
